---- MODULE Spec2Model ----
(***************************************************************************)
(* A model of the RAG service: the text chunker of AgnoRAGKnowledgeBase,   *)
(* the ingestion path that chunks, embeds and stores, and the query path   *)
(* of RAGService.  Texts are sequences of one-character strings.           *)
(***************************************************************************)
EXTENDS Integers, Sequences, FiniteSets, TLC

(* ------------------------------ bounds --------------------------------- *)

\* Longest text handed to the chunker.
MaxTextLen == 6

\* Largest chunk_size the knowledge base is constructed with.
MaxChunkSize == 5

(* ------------------------------ strings -------------------------------- *)

\* The characters texts are made of: a letter, the two break characters of
\* _chunk_text ('.' and newline) and a blank.  Newline and blank are the two
\* that str.strip() removes.
Chars == {"a", ".", "\n", " "}

Whitespace == {"\n", " "}

RECURSIVE TextsOfLen(_)
TextsOfLen(n) ==
    IF n = 0 THEN {<<>>}
    ELSE {Append(t, c) : t \in TextsOfLen(n - 1), c \in Chars}

Texts == UNION {TextsOfLen(n) : n \in 0..MaxTextLen}

Max(a, b) == IF a >= b THEN a ELSE b

Min(a, b) == IF a <= b THEN a ELSE b

\* A slice index as Python normalises it: a negative index counts from the
\* end, and the result is clamped to 0..len.
PyIndex(i, len) ==
    IF i < 0 THEN Max(i + len, 0) ELSE Min(i, len)

\* s[i:j] of Python, on 0-based indices.
PySlice(s, i, j) ==
    LET lo == PyIndex(i, Len(s))
        hi == PyIndex(j, Len(s))
    IN IF lo >= hi THEN <<>> ELSE SubSeq(s, lo + 1, hi)

\* s.rfind(c): the highest 0-based index holding c, or -1.
RFind(s, c) ==
    LET hits == {k \in 1..Len(s) : s[k] = c}
    IN IF hits = {} THEN -1
       ELSE (CHOOSE k \in hits : \A h \in hits : h <= k) - 1

\* s.strip(): leading and trailing whitespace removed.
Strip(s) ==
    LET keep == {k \in 1..Len(s) : s[k] \notin Whitespace}
    IN IF keep = {} THEN <<>>
       ELSE SubSeq(s, CHOOSE k \in keep : \A h \in keep : k <= h,
                      CHOOSE k \in keep : \A h \in keep : h <= k)

(* ------------------------------ chunker -------------------------------- *)

\* Mutant: the short-text test made strict.
ShortText_strict(t, cs) == Len(t) < cs

\* `if len(text) <= self.chunk_size: return [text]`
ShortText(t, cs) == Len(t) <= cs

\* Mutant: the window taken one character too long.
WindowEnd_long(st, cs) == st + cs + 1

\* `end = start + self.chunk_size`
WindowEnd(st, cs) == st + cs

\* Mutant: a break at the midpoint itself shrinks the window.
PastMidpoint_weak(bp, cs) == bp >= cs \div 2

\* `break_point > self.chunk_size // 2`
PastMidpoint(bp, cs) == bp > cs \div 2

\* `break_point = max(last_period, last_newline)`
BreakPoint(chunk) == Max(RFind(chunk, "."), RFind(chunk, "\n"))

\* Mutant: the cursor set one character past the overlap window.
NextStart_skip(end, ov) == end - ov + 1

\* `start = end - self.chunk_overlap`
NextStart(end, ov) == end - ov

\* One pass through the body of the while loop, from cursor st: the window
\* taken, whether it was shrunk to a sentence boundary, the chunk appended
\* and the cursor after the pass.
ChunkBody(t, cs, ov, st) ==
    LET end0 == WindowEnd(st, cs)
        chunk0 == PySlice(t, st, end0)
        bp == BreakPoint(chunk0)
        shrink == end0 < Len(t) /\ PastMidpoint(bp, cs)
        chunk == IF shrink THEN PySlice(chunk0, 0, bp + 1) ELSE chunk0
        end == IF shrink THEN st + bp + 1 ELSE end0
    IN [start |-> st, end |-> end, raw |-> chunk, chunk |-> Strip(chunk),
        shrunk |-> shrink, final |-> ~(end0 < Len(t)), bp |-> bp,
        next |-> NextStart(end, ov)]

\* _chunk_text as a whole, from cursor st with acc built so far.  `returns`
\* is FALSE when the loop is still running after `fuel` passes.
RECURSIVE ChunkRun(_, _, _, _, _, _)
ChunkRun(t, cs, ov, st, acc, fuel) ==
    IF fuel = 0 THEN [returns |-> FALSE, chunks |-> acc]
    ELSE IF ~(st < Len(t)) THEN [returns |-> TRUE, chunks |-> acc]
    ELSE LET w == ChunkBody(t, cs, ov, st)
         IN IF w.next >= Len(t)
            THEN [returns |-> TRUE, chunks |-> Append(acc, w.chunk)]
            ELSE ChunkRun(t, cs, ov, w.next, Append(acc, w.chunk), fuel - 1)

VARIABLES
    text,            \* the argument of _chunk_text
    chunk_size,      \* self.chunk_size
    chunk_overlap,   \* self.chunk_overlap
    start,           \* the cursor of the while loop
    chunks,          \* the list being built
    windows,         \* history: the pass record of every chunk in `chunks`
    pc,              \* of _chunk_text: "call", "loop" (at the head of the
                     \* while), "done"; "idle" where the service is modelled
    collection,      \* the records of the Chroma collection, in insertion order
    nextId,          \* the next unused id (uuid4 never repeats; an id drawn
                     \* for a chunk that is not stored is never seen)
    llm_available,   \* RAGService.llm_available (and agent is not None)
    call,            \* the service call in progress, or Idle
    result,          \* what the last finished service call gave its caller,
                     \* or the response of the endpoint
    hist,            \* history of the call or request: the collection it
                     \* found, its failure point, what it reached
    lifespan,        \* the application: phase "startup" until RAGService()
                     \* is built, then "serving", or "aborted" when building
                     \* it raised; and how the building went
    exists,          \* the Chroma collection exists and self.collection is it
    clearing         \* clear_knowledge_base is between delete_collection and
                     \* create_collection

chunkVars == <<text, start, chunks, windows, pc>>

configVars == <<chunk_size, chunk_overlap>>

svcVars == <<collection, nextId, llm_available, call, result, hist>>

appVars == <<lifespan, exists, clearing>>

vars == <<text, chunk_size, chunk_overlap, start, chunks, windows, pc,
          collection, nextId, llm_available, call, result, hist,
          lifespan, exists, clearing>>

Idle == [op |-> "idle"]

NoResult == [op |-> "none"]

NoHist == [op |-> "none"]

\* Requests are served once lifespan has built the service.
Serving == lifespan.phase = "serving"

\* Mutant: the endpoints run on threads, one beginning while another is
\* under way.
RunsAlone_threads == TRUE

\* Every endpoint is an `async def` that FastAPI runs on the event loop, and
\* none awaits while it uses the service: an endpoint begins its service
\* call only when no other call is under way.
RunsAlone == call = Idle /\ ~clearing

\* The list is followed for this many passes.  A call that returns makes
\* fewer: its cursor values at the loop head are distinct and lie between
\* -chunk_size and len(text).  Beyond it the loop runs on unrecorded.
MaxPasses == MaxTextLen + MaxChunkSize + 1

\* AgnoRAGKnowledgeBase.__init__ stores chunk_size and chunk_overlap as
\* given, without a check.
InitChunk ==
    /\ text = <<>>
    /\ chunk_size \in 1..MaxChunkSize
    /\ chunk_overlap \in 0..chunk_size
    /\ start = 0
    /\ chunks = <<>>
    /\ windows = <<>>
    /\ pc = "call"
    /\ collection = <<>>
    /\ nextId = 1
    /\ llm_available = FALSE
    /\ call = Idle
    /\ result = NoResult
    /\ hist = NoHist
    /\ lifespan = [phase |-> "serving", outcome |-> "agent_fails"]
    /\ exists = TRUE
    /\ clearing = FALSE

\* Lines 45-51: _chunk_text is called with some text; the short-text
\* return, or entry into the loop.
ChunkEnter ==
    /\ pc = "call"
    /\ \E t \in Texts :
          /\ text' = t
          /\ IF ShortText(t, chunk_size)
             THEN /\ chunks' = <<t>>
                  /\ pc' = "done"
             ELSE /\ chunks' = <<>>
                  /\ pc' = "loop"
    /\ start' = 0
    /\ UNCHANGED <<chunk_size, chunk_overlap, windows>>
    /\ UNCHANGED <<svcVars, appVars>>

\* Lines 53-71: the loop test and one pass of the body.
ChunkLoop ==
    /\ pc = "loop"
    /\ IF start < Len(text)
       THEN LET w == ChunkBody(text, chunk_size, chunk_overlap, start)
            IN /\ IF Len(chunks) < MaxPasses
                  THEN /\ chunks' = Append(chunks, w.chunk)
                       /\ windows' = Append(windows, w)
                  ELSE UNCHANGED <<chunks, windows>>
               /\ start' = w.next
               /\ pc' = IF w.next >= Len(text) THEN "done" ELSE "loop"
       ELSE /\ pc' = "done"
            /\ UNCHANGED <<start, chunks, windows>>
    /\ UNCHANGED <<text, chunk_size, chunk_overlap>>
    /\ UNCHANGED <<svcVars, appVars>>

NextChunk == ChunkEnter \/ ChunkLoop

\* The interpreter keeps running the call until it returns.
SpecChunk == InitChunk /\ [][NextChunk]_vars /\ WF_vars(ChunkLoop)

(* ------------------------------ ingestion ------------------------------ *)

\* Longest document handed to the service.
MaxDocLen == 2

\* An ingest call is begun only while fewer records than this were stored
\* since the service started.
MaxRecords == 1

\* Documents are made of a letter and a blank.
DocChars == {"a", " "}

RECURSIVE DocsOfLen(_)
DocsOfLen(n) ==
    IF n = 0 THEN {<<>>}
    ELSE {Append(t, c) : t \in DocsOfLen(n - 1), c \in DocChars}

DocTexts == UNION {DocsOfLen(n) : n \in 0..MaxDocLen}

\* A metadata argument: None, or a dict from keys to values.
None == [none |-> TRUE, dict |-> [k \in {} |-> 0]]

Dict(d) == [none |-> FALSE, dict |-> d]

EmptyDict == [k \in {} |-> 0]

\* The metadata a caller gives: none, the empty dict, or a dict with a key
\* of its own and the three keys that add_text_document also sets.
CallerMetas ==
    {None, Dict(EmptyDict),
     Dict([source |-> 7, chunk_index |-> 9, total_chunks |-> 9,
           original_doc_length |-> 9])}

\* DocumentUpload: content and Optional[dict] metadata.
DocumentUploads == {[content |-> t, metadata |-> m] : t \in DocTexts, m \in CallerMetas}

\* The batches of the model: one or two documents.
Batches ==
    {<<d>> : d \in DocumentUploads}
        \cup {<<d, e>> : d \in {u \in DocumentUploads : u.metadata = Dict(EmptyDict)},
                         e \in {u \in DocumentUploads : u.metadata = Dict(EmptyDict)}}

\* _chunk_text(text) with the configuration of the knowledge base.
ChunkText(t, cs, ov) ==
    IF ShortText(t, cs) THEN [returns |-> TRUE, chunks |-> <<t>>]
    ELSE ChunkRun(t, cs, ov, 0, <<>>, MaxPasses)

SynthKeys == {"chunk_index", "total_chunks", "original_doc_length"}

\* Mutant: the chunk index counted from 1.
ChunkIndex_fromOne(i) == i + 1

\* `enumerate(chunks)`: the index of the i-th chunk (i counts the chunks
\* already handled).
ChunkIndex(i) == i

\* Mutant: a key the caller gave keeps the caller's value.
ChunkMetadata_callerWins(md, i, chs, content) ==
    LET m == IF md.none THEN EmptyDict ELSE md.dict
    IN [k \in (DOMAIN m) \cup SynthKeys |->
            IF k \in DOMAIN m THEN m[k]
            ELSE IF k = "chunk_index" THEN i
            ELSE IF k = "total_chunks" THEN Len(chs)
            ELSE Len(content)]

\* `{**metadata, "chunk_index": i, "total_chunks": len(chunks),
\*   "original_doc_length": len(content)}`, with `metadata = {}` for None.
ChunkMetadata(md, i, chs, content) ==
    LET m == IF md.none THEN EmptyDict ELSE md.dict
    IN [k \in (DOMAIN m) \cup SynthKeys |->
            IF k = "chunk_index" THEN ChunkIndex(i)
            ELSE IF k = "total_chunks" THEN Len(chs)
            ELSE IF k = "original_doc_length" THEN Len(content)
            ELSE m[k]]

\* The outcomes of handling one chunk: embedder.encode raises,
\* collection.add raises, or both succeed.
StoreOutcomes == {"ok", "embed_fails", "add_fails"}

\* Mutant: the write replaces what the collection held.
CollectionAdd_replace(coll, rec) == <<rec>>

\* `self.collection.add(ids=[chunk_id], ...)` with a fresh uuid: the record
\* is added and no other record is touched.
CollectionAdd(coll, rec) == Append(coll, rec)

\* Mutant: the record of a chunk is written before its embedding is made.
StoresChunk_early(outcome) == outcome \in {"ok", "embed_fails"}

\* Whether the chunk reaches the collection: only when neither call raised.
StoresChunk(outcome) == outcome = "ok"

\* The call record at the start of add_text_document for document number d
\* (lines 77-83), the collection then holding `base` records: the document
\* is chunked, no chunk is handled yet.  When _chunk_text never returns the
\* call hangs.
EnterDocument(c, d, base) ==
    LET doc == c.docs[d]
        r == ChunkText(doc.content, chunk_size, chunk_overlap)
    IN IF r.returns
       THEN [c EXCEPT !.d = d, !.chunks = r.chunks, !.i = 0, !.chunk_ids = <<>>,
                      !.docBase = base]
       ELSE [op |-> "hung"]

NewCall(op, docs) ==
    [op |-> op, docs |-> docs, d |-> 1, chunks |-> <<>>, i |-> 0,
     chunk_ids |-> <<>>, all_ids |-> <<>>, docBase |-> 0]

\* History of an ingest call: its documents, the collection it found, and,
\* once a chunk has failed, the document and chunk (both as the code counts
\* them) and the size of the collection when that document was entered.
NewHist(op, docs) ==
    [op |-> op, docs |-> docs, base |-> collection, failedDoc |-> 0,
     failedAt |-> -1, docBase |-> Len(collection)]

\* Mutant: the ids of a document replace the ids gathered so far.
ExtendIds_replace(all, ids) == ids

\* `all_ids.extend(ids)`
ExtendIds(all, ids) == all \o ids

\* Mutant: the error result carries the ids stored before the failure.
ErrorResult_partial(prefix, e, ids) ==
    [status |-> "error", message |-> <<prefix, e>>, document_ids |-> ids]

\* The except branch of add_document / add_documents_batch: status and
\* message only.
ErrorResult(prefix, e, ids) == [status |-> "error", message |-> <<prefix, e>>]

\* The success result of add_document (lines 57-62).
SingleResult(ids) ==
    [status |-> "success", message |-> <<"Document added successfully">>,
     document_ids |-> ids, chunks_created |-> Len(ids)]

\* The success result of add_documents_batch (lines 82-87).
BatchResult(docs, ids) ==
    [status |-> "success", message |-> <<"Added", Len(docs), "documents successfully">>,
     document_ids |-> ids, total_chunks_created |-> Len(ids)]

\* The characters of the best document the fallback answer quotes.
FallbackChars == 500

\* A record an earlier run of the service left in the persistent store.
StoredBefore ==
    [id |-> 0, document |-> <<"a">>,
     metadata |-> [chunk_index |-> 0, total_chunks |-> 1, original_doc_length |-> 1]]

\* Records an earlier run with the default chunk_size of 1000 left: one
\* longer than the quote of the fallback answer, one exactly as long.
StoredLong ==
    [id |-> 0, document |-> [k \in 1..(FallbackChars + 1) |->
                                IF k <= FallbackChars THEN "a" ELSE " "],
     metadata |-> [chunk_index |-> 0, total_chunks |-> 1,
                   original_doc_length |-> FallbackChars + 1]]

StoredExact ==
    [id |-> 0, document |-> [k \in 1..FallbackChars |-> "a"],
     metadata |-> [chunk_index |-> 0, total_chunks |-> 1,
                   original_doc_length |-> FallbackChars]]

\* RAGService.__init__: the knowledge base is built from the settings
\* (get_or_create_collection opens what the store holds, one of `stored`),
\* the agent is built or, when that raises, the service runs degraded.
ServiceInit(stored) ==
    /\ text = <<>>
    /\ start = 0
    /\ chunks = <<>>
    /\ windows = <<>>
    /\ pc = "idle"
    /\ chunk_size \in 1..MaxDocLen
    /\ chunk_overlap \in 0..chunk_size
    /\ collection \in stored
    /\ nextId = 1
    /\ llm_available \in BOOLEAN
    /\ call = Idle
    /\ result = NoResult
    /\ hist = NoHist
    /\ lifespan = [phase |-> "serving",
                   outcome |-> IF llm_available THEN "ok" ELSE "agent_fails"]
    /\ exists = TRUE
    /\ clearing = FALSE

Init == ServiceInit({<<>>, <<StoredBefore>>})

\* RAGService.add_document up to the first chunk: add_text_document is
\* entered and the document chunked.
AddDocument ==
    /\ RunsAlone
    /\ Serving
    /\ result = NoResult
    /\ nextId <= MaxRecords
    /\ \E doc \in DocumentUploads :
          /\ call' = EnterDocument(NewCall("add_document", <<doc>>), 1, Len(collection))
          /\ hist' = NewHist("add_document", <<doc>>)
    /\ UNCHANGED result
    /\ UNCHANGED <<collection, nextId, llm_available>>
    /\ UNCHANGED <<chunkVars, configVars, appVars>>

\* RAGService.add_documents_batch up to the first chunk of the first
\* document.
AddDocumentsBatch ==
    /\ RunsAlone
    /\ Serving
    /\ result = NoResult
    /\ nextId <= MaxRecords
    /\ \E docs \in Batches :
          /\ call' = EnterDocument(NewCall("add_documents_batch", docs), 1,
                                    Len(collection))
          /\ hist' = NewHist("add_documents_batch", docs)
    /\ UNCHANGED result
    /\ UNCHANGED <<collection, nextId, llm_available>>
    /\ UNCHANGED <<chunkVars, configVars, appVars>>

ErrorPrefix(op) ==
    IF op = "add_document" THEN "Failed to add document: "
    ELSE "Failed to add documents: "

\* One pass of the loop of add_text_document (lines 85-105) and what follows
\* it: a fresh id, the metadata, the embedding, the write; after the last
\* chunk of a document the ids are returned, and the batch goes on to its
\* next document or the service call returns its result.  An exception
\* leaves add_text_document and add_text_documents and is caught by the
\* service method.  A collection that was deleted cannot be written.
StoreChunk ==
    /\ call.op \in {"add_document", "add_documents_batch"}
    /\ \E outcome \in {o \in StoreOutcomes : StoresChunk(o) => exists} :
        LET doc == call.docs[call.d]
            chunk == call.chunks[call.i + 1]
            rec == [id |-> nextId, document |-> chunk,
                    metadata |-> ChunkMetadata(doc.metadata, call.i, call.chunks,
                                               doc.content)]
            ids == Append(call.chunk_ids, nextId)
            lastChunk == call.i + 1 = Len(call.chunks)
            lastDoc == call.d = Len(call.docs)
            all == IF call.op = "add_document" THEN ids
                   ELSE ExtendIds(call.all_ids, ids)
        IN /\ nextId' = IF StoresChunk(outcome) THEN nextId + 1 ELSE nextId
           /\ collection' = IF StoresChunk(outcome) THEN CollectionAdd(collection, rec)
                            ELSE collection
           /\ IF outcome # "ok"
              THEN /\ call' = Idle
                   /\ result' = [op |-> call.op, raised |-> FALSE,
                                 value |-> ErrorResult(ErrorPrefix(call.op), outcome,
                                                       call.all_ids \o call.chunk_ids)]
                   /\ hist' = [hist EXCEPT !.failedDoc = call.d,
                                           !.failedAt = call.i,
                                           !.docBase = call.docBase]
              ELSE IF ~lastChunk
              THEN /\ call' = [call EXCEPT !.i = call.i + 1, !.chunk_ids = ids]
                   /\ UNCHANGED <<result, hist>>
              ELSE IF ~lastDoc
              THEN /\ call' = EnterDocument([call EXCEPT !.all_ids = all], call.d + 1,
                                         Len(collection) + 1)
                   /\ UNCHANGED <<result, hist>>
              ELSE /\ call' = Idle
                   /\ result' = [op |-> call.op, raised |-> FALSE,
                                 value |-> IF call.op = "add_document"
                                           THEN SingleResult(all)
                                           ELSE BatchResult(call.docs, all)]
                   /\ UNCHANGED hist
    /\ UNCHANGED llm_available
    /\ UNCHANGED <<chunkVars, configVars, appVars>>

\* The endpoint function hands the result of the service call to its
\* client and the request is over.
Respond ==
    /\ call = Idle
    /\ result # NoResult
    /\ result' = NoResult
    /\ hist' = IF result = [op |-> "DELETE /documents", status_code |-> 200]
               THEN [op |-> "cleared"]
               ELSE NoHist
    /\ UNCHANGED <<collection, nextId, llm_available, call>>
    /\ UNCHANGED <<chunkVars, configVars, appVars>>

Next == AddDocument \/ AddDocumentsBatch \/ StoreChunk \/ Respond

Spec == Init /\ [][Next]_vars

(* -------------------------------- query -------------------------------- *)

Queries == {<<"a">>, <<" ">>}

\* top_k of a request: none asked, one, or more than the collection holds.
TopKs == {0, 1, 3}

\* QueryRequest: query and top_k.
QueryRequests == {[query |-> q, top_k |-> k] : q \in Queries, k \in TopKs}

\* The outcomes of the two collaborator calls of search: embedder.encode
\* raises, collection.query raises, or both succeed.
SearchOutcomes == {"ok", "embed_fails", "query_fails"}

\* The outcomes of agent.run.
AgentOutcomes == {"answers", "raises"}

\* Distances are in hundredths: the j-th nearest record lies at 8, 18, ...
Distance(j) == 8 + 10 * (j - 1)

\* The records of the collection nearest first: record number `top` is the
\* nearest, the others follow in insertion order.
Nearest(top) ==
    <<collection[top]>> \o
        SubSeq(collection, 1, top - 1) \o SubSeq(collection, top + 1, Len(collection))

\* The call of search that raises, if any: embedder.encode, or
\* collection.query (which cannot answer for a collection that was
\* deleted).
SearchFailure(outcome) ==
    IF outcome = "embed_fails" THEN "embed_fails"
    ELSE IF outcome = "query_fails" \/ ~exists THEN "query_fails"
    ELSE "none"

\* AgnoRAGKnowledgeBase.search: an exception of either collaborator is
\* caught and gives the empty list; otherwise the `limit` nearest records
\* (none for a limit below 1 or an empty collection), with
\* score = 1 - distance.
Search(limit, outcome, top) ==
    IF SearchFailure(outcome) # "none" \/ limit < 1 \/ Len(collection) = 0 THEN <<>>
    ELSE LET near == Nearest(top)
             n == Min(limit, Len(near))
         IN [j \in 1..n |->
                [id |-> near[j].id, content |-> near[j].document,
                 metadata |-> near[j].metadata, distance |-> Distance(j),
                 score |-> 100 - Distance(j)]]

\* Mutant: the whole text of the best document is quoted.
Quoted_whole(content) == content

\* `content[:500]`
Quoted(content) == PySlice(content, 0, FallbackChars)

\* Mutant: the answer for no documents does not repeat the query.
NoDocumentsAnswer_generic(query) == [kind |-> "no_documents", query |-> <<>>]

\* Lines 172-173: "I found no relevant documents to answer your question:
\* '{query}'. Please try rephrasing ...".
NoDocumentsAnswer(query) == [kind |-> "no_documents", query |-> query]

\* RAGService._fallback_response: the template for no documents, or the
\* template around the score (two decimals) and the quoted text of
\* context_docs[0], with '...' when the text is longer than the quote.
FallbackResponse(query, docs) ==
    IF docs = <<>> THEN NoDocumentsAnswer(query)
    ELSE [kind |-> "extract", score |-> docs[1].score,
          quoted |-> Quoted(docs[1].content),
          ellipsis |-> Len(docs[1].content) > FallbackChars]

\* `DocumentResponse(id=..., content=..., metadata=..., score=...)`
Sources(docs) ==
    [j \in 1..Len(docs) |->
        [id |-> docs[j].id, content |-> docs[j].content,
         metadata |-> docs[j].metadata, score |-> docs[j].score]]

\* The body of the try block of RAGService.query (lines 99-145): the
\* response built, or the exception that left the block.
QueryTry(req, docs, agentOutcome) ==
    IF llm_available
    THEN IF agentOutcome = "raises"
         THEN [raised |-> TRUE, error |-> "agent.run failed"]
         ELSE [raised |-> FALSE,
               value |-> [answer |-> [kind |-> "agent"], sources |-> Sources(docs),
                          query |-> req.query]]
    ELSE [raised |-> FALSE,
          value |-> [answer |-> FallbackResponse(req.query, docs),
                     sources |-> Sources(docs), query |-> req.query]]

\* Mutant: the except branch is missing and the exception leaves query.
QueryReturn_uncaught(req, r) ==
    IF r.raised THEN [op |-> "query", raised |-> TRUE, error |-> r.error]
    ELSE [op |-> "query", raised |-> FALSE, value |-> r.value]

\* What query gives its caller: the response of the try block, or from the
\* except branch (lines 147-155) a response that carries the error.
QueryReturn(req, r) ==
    [op |-> "query", raised |-> FALSE,
     value |-> IF r.raised
               THEN [answer |-> [kind |-> "error", error |-> r.error],
                     sources |-> <<>>, query |-> req.query]
               ELSE r.value]

\* The step of the query path that raised, if any: one of the two calls of
\* search, or agent.run (made only when the agent is there).
QueryFailure(so, ao) ==
    IF SearchFailure(so) # "none" THEN SearchFailure(so)
    ELSE IF llm_available /\ ao = "raises" THEN "agent_fails"
    ELSE "none"

\* RAGService.query, the whole call.
Query ==
    /\ RunsAlone
    /\ Serving
    /\ result = NoResult
    /\ \E req \in QueryRequests, so \in SearchOutcomes, ao \in AgentOutcomes,
          top \in 1..Max(1, Len(collection)) :
          /\ result' = QueryReturn(req, QueryTry(req, Search(req.top_k, so, top), ao))
          /\ hist' = [op |-> "query", request |-> req,
                      failed |-> QueryFailure(so, ao)]
    /\ UNCHANGED <<collection, nextId, llm_available, call>>
    /\ UNCHANGED <<chunkVars, configVars, appVars>>

NextQuery == AddDocument \/ StoreChunk \/ Query \/ Respond

InitQuery == ServiceInit({<<>>, <<StoredBefore>>, <<StoredLong>>, <<StoredExact>>})

SpecQuery == InitQuery /\ [][NextQuery]_vars

(* ---------------------------- the HTTP surface ------------------------- *)

\* How the building of the service goes: the Chroma client or collection
\* cannot be opened, the embedder cannot be loaded, the agent cannot be
\* built, or all are there.
StartupOutcomes == {"ok", "store_fails", "embedder_fails", "agent_fails"}

\* Mutant: a knowledge base that cannot be built is absorbed like the agent.
StartupAborts_absorbed(outcome) == FALSE

\* RAGService.__init__ builds the knowledge base outside any try (lines
\* 19-24) and lifespan logs and re-raises what RAGService() raises (lines
\* 37-39).
StartupAborts(outcome) == outcome \in {"store_fails", "embedder_fails"}

\* Lines 27-44 of RAGService.__init__: a failure of Agent(...) is caught.
AgentBuilt(outcome) == outcome = "ok"

\* The application before lifespan runs: the store holds what an earlier
\* run left, rag_service is None.
InitHttp ==
    /\ text = <<>>
    /\ start = 0
    /\ chunks = <<>>
    /\ windows = <<>>
    /\ pc = "idle"
    /\ chunk_size \in 1..MaxDocLen
    /\ chunk_overlap \in 0..chunk_size
    /\ collection \in {<<>>, <<StoredBefore>>}
    /\ nextId = 1
    /\ llm_available = FALSE
    /\ call = Idle
    /\ result = NoResult
    /\ hist = NoHist
    /\ lifespan = [phase |-> "startup", outcome |-> "none"]
    /\ exists = TRUE
    /\ clearing = FALSE

\* lifespan up to its yield: RAGService() is built, or startup fails.
Startup ==
    /\ lifespan.phase = "startup"
    /\ \E outcome \in StartupOutcomes :
          /\ lifespan' = [phase |-> IF StartupAborts(outcome) THEN "aborted"
                                    ELSE "serving",
                          outcome |-> outcome]
          /\ llm_available' = (~StartupAborts(outcome) /\ AgentBuilt(outcome))
    /\ UNCHANGED <<collection, nextId, call, result, hist, exists, clearing>>
    /\ UNCHANGED <<chunkVars, configVars>>

\* Mutant: an HTTPException raised in the try block reaches the client as
\* raised.
Raised_direct(status_code) == status_code

\* `raise HTTPException(status_code=...)` inside the try block of an
\* endpoint: HTTPException is an Exception, so the endpoint's
\* `except Exception as e` catches it and raises HTTPException(500).
Raised(status_code) == 500

\* Mutant: the service is called before the request is looked at.
InvokedBy_late(rejected, made) == made

\* The collaborators a request reaches: the check of the request comes
\* first in every endpoint, and its raise leaves the try block.
InvokedBy(rejected, made) == IF rejected THEN {} ELSE made

\* The response and the history of a request that its endpoint rejects.
Rejection(op, status_code) ==
    [op |-> op, status_code |-> Raised(status_code)]

RejectionHist(op, made) ==
    [op |-> op, rejected |-> TRUE, invoked |-> InvokedBy(TRUE, made),
     base |-> collection]

\* The lists sent to POST /documents/batch: the empty one, one document, or
\* the same one-letter document twice.
HttpBatches ==
    {<<>>}
        \cup {<<[content |-> t, metadata |-> Dict(EmptyDict)]>> : t \in DocTexts}
        \cup {<<[content |-> <<"a">>, metadata |-> Dict(EmptyDict)],
                [content |-> <<"a">>, metadata |-> Dict(EmptyDict)]>>}

\* POST /documents/batch: an empty list is rejected, any other is handed to
\* RAGService.add_documents_batch.
AddDocumentsBatchEndpoint ==
    /\ RunsAlone
    /\ Serving
    /\ result = NoResult
    /\ \E docs \in HttpBatches :
          IF docs = <<>>
          THEN /\ result' = Rejection("POST /documents/batch", 400)
               /\ hist' = RejectionHist("POST /documents/batch", {"rag_service"})
               /\ UNCHANGED call
          ELSE /\ nextId <= MaxRecords
               /\ call' = EnterDocument(NewCall("add_documents_batch", docs), 1,
                                         Len(collection))
               /\ hist' = NewHist("add_documents_batch", docs)
               /\ UNCHANGED result
    /\ UNCHANGED <<collection, nextId, llm_available>>
    /\ UNCHANGED <<chunkVars, configVars, appVars>>

ContentTypes == {"text/plain", "image/png"}

\* `file.content_type.startswith('text/')`
IsText(content_type) == content_type = "text/plain"

\* The document upload_text_file makes of a file.
UploadedDocument(t, content_type) ==
    [content |-> t,
     metadata |-> Dict([filename |-> "f", content_type |-> content_type,
                        size |-> Len(t)])]

\* POST /documents/upload: a file that is not text is rejected; otherwise
\* the file is read and decoded (which may raise) and the document handed
\* to RAGService.add_document.
UploadTextFile ==
    /\ RunsAlone
    /\ Serving
    /\ result = NoResult
    /\ \E t \in DocTexts, content_type \in ContentTypes, decodes \in BOOLEAN :
          IF ~IsText(content_type)
          THEN /\ result' = Rejection("POST /documents/upload", 400)
               /\ hist' = RejectionHist("POST /documents/upload", {"rag_service"})
               /\ UNCHANGED call
          ELSE IF ~decodes
          THEN /\ result' = [op |-> "POST /documents/upload", status_code |-> 500]
               /\ hist' = [op |-> "POST /documents/upload", rejected |-> FALSE,
                           invoked |-> {}, base |-> collection]
               /\ UNCHANGED call
          ELSE /\ nextId <= MaxRecords
               /\ call' = EnterDocument(
                              NewCall("add_document",
                                      <<UploadedDocument(t, content_type)>>),
                              1, Len(collection))
               /\ hist' = NewHist("add_document", <<UploadedDocument(t, content_type)>>)
               /\ UNCHANGED result
    /\ UNCHANGED <<collection, nextId, llm_available>>
    /\ UNCHANGED <<chunkVars, configVars, appVars>>

\* The queries sent over HTTP, with the default top_k: also the empty one.
HttpQueryRequests ==
    {[query |-> q, top_k |-> 5] : q \in Queries \cup {<<>>}}

\* `not query_request.query.strip()`
BlankQuery(req) == Strip(req.query) = <<>>

\* The collaborators RAGService.query reaches: the embedder, the collection
\* unless the embedding failed, the agent when there is one.
QueryInvoked(so) ==
    {"rag_service", "embedder"}
        \cup (IF so = "embed_fails" THEN {} ELSE {"collection"})
        \cup (IF llm_available THEN {"agent"} ELSE {})

\* POST /query: a blank query is rejected, any other is answered by
\* RAGService.query.
QueryDocuments ==
    /\ RunsAlone
    /\ Serving
    /\ result = NoResult
    /\ \E req \in HttpQueryRequests, so \in SearchOutcomes, ao \in AgentOutcomes,
          top \in 1..Max(1, Len(collection)) :
          IF BlankQuery(req)
          THEN /\ result' = Rejection("POST /query", 400)
               /\ hist' = RejectionHist("POST /query", QueryInvoked(so))
          ELSE /\ result' = [op |-> "POST /query", status_code |-> 200,
                             value |-> QueryReturn(req,
                                          QueryTry(req, Search(req.top_k, so, top),
                                                   ao)).value]
               /\ hist' = [op |-> "POST /query", rejected |-> FALSE,
                           invoked |-> InvokedBy(FALSE, QueryInvoked(so)),
                           base |-> collection,
                           failed |-> QueryFailure(so, ao)]
    /\ UNCHANGED <<collection, nextId, llm_available, call>>
    /\ UNCHANGED <<chunkVars, configVars, appVars>>

\* collection.count() answers or raises; for a collection that was deleted
\* it raises.
CountOutcomes == {"ok", "fails"}

CountFails(outcome) == outcome = "fails" \/ ~exists

\* AgnoRAGKnowledgeBase.get_stats: the count and the configuration, or, when
\* count() raises, a dict with the error alone.
KnowledgeBaseStats(outcome) ==
    IF CountFails(outcome) THEN [error |-> "count failed"]
    ELSE [total_documents |-> Len(collection), collection_name |-> "documents",
          path |-> "./chroma_db", type |-> "AgnoRAGKnowledgeBase"]

\* RAGService.get_stats: nothing in its try block raises (the knowledge
\* base catches its own exception), so the status is "operational".
ServiceStats(outcome) ==
    [knowledge_base |-> KnowledgeBaseStats(outcome),
     llm_service |-> [status |-> IF llm_available THEN "healthy" ELSE "degraded",
                      model |-> IF llm_available THEN "LLM_MODEL" ELSE "fallback",
                      framework |-> "Agno"],
     status |-> "operational"]

\* health_check: 503 when the stats say "error", else healthy.
HealthStatus(stats) == IF stats.status = "error" THEN 503 ELSE 200

\* GET /health
HealthCheck ==
    /\ RunsAlone
    /\ Serving
    /\ result = NoResult
    /\ \E outcome \in CountOutcomes :
          /\ result' = [op |-> "GET /health",
                        status_code |-> HealthStatus(ServiceStats(outcome))]
          /\ hist' = [op |-> "GET /health",
                      count |-> IF CountFails(outcome) THEN "fails" ELSE "ok"]
    /\ UNCHANGED <<collection, nextId, llm_available, call>>
    /\ UNCHANGED <<chunkVars, configVars, appVars>>

\* GET /stats.  The history keeps what the request before it was.
GetSystemStats ==
    /\ RunsAlone
    /\ Serving
    /\ result = NoResult
    /\ \E outcome \in CountOutcomes :
          /\ result' = [op |-> "GET /stats", status_code |-> 200,
                        value |-> ServiceStats(outcome)]
          /\ hist' = [op |-> "GET /stats", after |-> hist.op,
                      count |-> IF CountFails(outcome) THEN "fails" ELSE "ok"]
    /\ UNCHANGED <<collection, nextId, llm_available, call>>
    /\ UNCHANGED <<chunkVars, configVars, appVars>>

\* The outcomes of delete_collection and of create_collection.
ClearOutcomes == {"ok", "fails"}

\* Mutant: the collection made anew holds what the old one held.
Recreated_kept(coll) == coll

\* The records after delete_collection and create_collection: none.
Recreated(coll) == <<>>

ClearError == [op |-> "DELETE /documents", status_code |-> 500]

\* DELETE /documents up to delete_collection (line 143): the collection is
\* deleted with its records, or the call raises (as it does when there is
\* no collection of that name), which RAGService.clear_knowledge_base turns
\* into an error result and the endpoint into a 500.
ClearDelete ==
    /\ RunsAlone
    /\ Serving
    /\ result = NoResult
    /\ \E outcome \in ClearOutcomes :
          IF outcome = "ok" /\ exists
          THEN /\ collection' = Recreated(collection)
               /\ exists' = FALSE
               /\ clearing' = TRUE
               /\ hist' = [op |-> "clear", base |-> collection]
               /\ UNCHANGED result
          ELSE /\ result' = ClearError
               /\ hist' = [op |-> "clear", base |-> collection]
               /\ UNCHANGED <<collection, exists, clearing>>
    /\ UNCHANGED <<nextId, llm_available, call, lifespan>>
    /\ UNCHANGED <<chunkVars, configVars>>

\* The rest of the clear: create_collection (line 144) gives self.collection
\* a new, empty collection, or raises and leaves none.
ClearCreate ==
    /\ clearing
    /\ clearing' = FALSE
    /\ \E outcome \in ClearOutcomes :
          IF outcome = "ok"
          THEN /\ exists' = TRUE
               /\ result' = [op |-> "DELETE /documents", status_code |-> 200]
          ELSE /\ exists' = FALSE
               /\ result' = ClearError
    /\ UNCHANGED <<collection, nextId, llm_available, call, hist, lifespan>>
    /\ UNCHANGED <<chunkVars, configVars>>

NextHttp ==
    \/ Startup
    \/ AddDocument
    \/ AddDocumentsBatchEndpoint
    \/ UploadTextFile
    \/ StoreChunk
    \/ QueryDocuments
    \/ HealthCheck
    \/ GetSystemStats
    \/ ClearDelete
    \/ ClearCreate
    \/ Respond

SpecHttp == InitHttp /\ [][NextHttp]_vars

ValidConfig == chunk_size > 0 /\ 0 <= chunk_overlap /\ chunk_overlap < chunk_size

LongText == Len(text) > chunk_size

InChunker == pc \in {"loop", "done"}

(* ------------------------- claims on the chunker ----------------------- *)

\* The loop body is a function of the cursor alone (text and configuration
\* are fixed during a call), so the call returns iff no cursor value is
\* met twice at the head of the loop.
CursorRecurs ==
    \E i, j \in 1..Len(windows) : i < j /\ windows[i].start = windows[j].start

\* C1: for every text and every valid configuration (chunk_size > 0 and
\* 0 <= overlap < chunk_size) _chunk_text terminates: the cursor keeps
\* making progress towards len(text), it never comes back to a value it had
\* at an earlier pass, and the chunks returned are finitely many.
C1_Terminates == (ValidConfig /\ InChunker) => ~CursorRecurs

\* C2: for len(text) > chunk_size and a valid overlap every chunk produced,
\* before and after trimming, has length <= chunk_size.
C2_ChunkLength ==
    (ValidConfig /\ LongText /\ InChunker) =>
        \A k \in 1..Len(chunks) :
            /\ Len(chunks[k]) <= chunk_size
            /\ Len(windows[k].raw) <= chunk_size

C2_Witness ==
    /\ ValidConfig /\ LongText /\ pc = "done"
    /\ Len(chunks) >= 2
    /\ \E k \in 1..Len(chunks) : Len(chunks[k]) = chunk_size
    /\ \E k \in 1..Len(chunks) :
          windows[k].shrunk /\ Len(windows[k].raw) < chunk_size

\* Position p (0-based) of the text lies in the untrimmed window
\* text[w.start:w.end], read as Python reads the slice.
InWindow(w, p) ==
    /\ PyIndex(w.start, Len(text)) <= p
    /\ p < PyIndex(w.end, Len(text))

\* C3: for len(text) > chunk_size and a valid overlap no character is
\* skipped: the first window starts at 0, each next window starts at the
\* previous window's end minus the overlap (so not after that end), every
\* position up to the last window's end lies in some window, and when the
\* call has returned every position 0..len(text)-1 does.
C3_NoCharSkipped ==
    (ValidConfig /\ LongText /\ InChunker) =>
        /\ Len(windows) >= 1 => windows[1].start = 0
        /\ \A k \in 1..(Len(windows) - 1) :
              /\ windows[k + 1].start = windows[k].end - chunk_overlap
              /\ windows[k + 1].start <= windows[k].end
        /\ \A p \in 0..(Len(text) - 1) :
              (pc = "done" \/ (Len(windows) >= 1 /\ p < windows[Len(windows)].end))
                  => \E k \in 1..Len(windows) : InWindow(windows[k], p)

C3_Witness ==
    /\ ValidConfig /\ LongText /\ pc = "done"
    /\ chunk_overlap > 0
    /\ Len(windows) >= 3
    /\ \E k \in 1..Len(windows) : windows[k].shrunk /\ windows[k].end < windows[k].start + chunk_size

\* C4: a text with len(text) <= chunk_size, the empty text included, comes
\* back as the one-element list [text], untrimmed and unsplit, whatever the
\* overlap.
C4_ShortTextVerbatim ==
    (pc = "done" /\ Len(text) <= chunk_size) => chunks = <<text>>

C4_Witness ==
    /\ pc = "done"
    /\ Len(text) = chunk_size
    /\ text[1] = " "
    /\ chunk_overlap = chunk_size
    /\ chunks = <<text>>

\* C5: with overlap >= chunk_size the configuration is rejected: a call of
\* _chunk_text that would enter the loop ends in an error instead, and no
\* pass of a loop whose cursor cannot advance is made.
C5_FailFast ==
    (chunk_overlap >= chunk_size /\ LongText /\ pc # "call") =>
        (pc = "error" \/ windows = <<>>)

(* ------------------------- claims on ingestion ------------------------- *)

IngestOps == {"add_document", "add_documents_batch"}

Ingesting == call.op \in IngestOps

IngestSucceeded == result.op \in IngestOps /\ result.value.status = "success"

IngestFailed == result.op \in IngestOps /\ result.value.status = "error"

\* The chunks _chunk_text makes of a document under the configuration.
DocChunks(doc) == ChunkText(doc.content, chunk_size, chunk_overlap).chunks

\* The chunks of the documents before document d of a call.
RECURSIVE ChunksBefore(_, _)
ChunksBefore(docs, d) ==
    IF d <= 1 THEN 0
    ELSE ChunksBefore(docs, d - 1) + Len(DocChunks(docs[d - 1]))

\* The records the collection gained since the ingest call began.
Added == SubSeq(collection, Len(hist.base) + 1, Len(collection))

\* The first n chunks of document d of the call are recorded where the call
\* put them, each with its index, the number of chunks of the document and
\* its text.
Recorded(docs, d, n) ==
    LET chs == DocChunks(docs[d])
        off == ChunksBefore(docs, d)
    IN /\ Len(Added) >= off + n
       /\ \A k \in 0..(n - 1) :
            /\ Added[off + k + 1].metadata.chunk_index = k
            /\ Added[off + k + 1].metadata.total_chunks = Len(chs)
            /\ Added[off + k + 1].document = chs[k + 1]

\* The documents of the call in progress or just finished that
\* add_text_document has returned for.
DocsIngested ==
    IF Ingesting THEN call.d - 1
    ELSE IF IngestSucceeded THEN Len(hist.docs)
    ELSE IF IngestFailed THEN hist.failedDoc - 1
    ELSE 0

\* C6: for every successfully ingested document each stored chunk's
\* total_chunks is the number of chunks _chunk_text made of it, and its
\* records carry chunk_index 0..total_chunks-1 in the order the chunks were
\* made, which is the order of the ids returned.
C6_ChunkIndexing ==
    /\ (Ingesting \/ IngestSucceeded \/ IngestFailed) =>
          \A d \in 1..DocsIngested :
              Recorded(hist.docs, d, Len(DocChunks(hist.docs[d])))
    /\ IngestSucceeded =>
          /\ Len(Added) = ChunksBefore(hist.docs, Len(hist.docs) + 1)
          /\ Len(result.value.document_ids) = Len(Added)
          /\ \A j \in 1..Len(Added) : result.value.document_ids[j] = Added[j].id

C6_Witness ==
    /\ IngestSucceeded
    /\ result.op = "add_document"
    /\ Len(Added) >= 2
    /\ Added[2].metadata.chunk_index = 1
    /\ Added[2].metadata.total_chunks = 2

\* C7: when the embedding or the write of chunk k of an ingest call fails,
\* chunks k and later of the call are not stored and chunks 0..k-1 stay:
\* the collection holds what it held before the call, the records of the
\* documents already ingested by the call and exactly those k records.
C7_NoRollback ==
    IngestFailed =>
        /\ SubSeq(collection, 1, Len(hist.base)) = hist.base
        /\ Len(collection) = hist.docBase + hist.failedAt
        /\ hist.docBase = Len(hist.base) + ChunksBefore(hist.docs, hist.failedDoc)
        /\ Recorded(hist.docs, hist.failedDoc, hist.failedAt)

C7_Witness ==
    /\ IngestFailed
    /\ result.op = "add_document"
    /\ hist.failedAt = 1
    /\ Len(hist.base) = 1
    /\ Len(collection) = 2

\* C8: when a collaborator call fails during a single or batch ingest the
\* service method does not raise: it returns status "error" with a message
\* and nothing else, neither document ids nor a chunk count, also when
\* chunks of the call were stored.
C8_ErrorResult ==
    (result.op \in IngestOps) =>
        /\ result.raised = FALSE
        /\ (hist.failedAt >= 0) =>
              /\ result.value.status = "error"
              /\ DOMAIN result.value = {"status", "message"}

C8_Witness ==
    /\ IngestFailed
    /\ result.op = "add_documents_batch"
    /\ Len(Added) >= 1

\* C9: a successful batch ingest handles every document in list order and
\* returns the ids of the documents' records joined in that order, chunk
\* order within a document; total_chunks_created is the length of that
\* list and the number of records the collection gained.
C9_BatchOrder ==
    (IngestSucceeded /\ result.op = "add_documents_batch") =>
        /\ \A d \in 1..Len(hist.docs) :
              Recorded(hist.docs, d, Len(DocChunks(hist.docs[d])))
        /\ result.value.document_ids = [j \in 1..Len(Added) |-> Added[j].id]
        /\ result.value.total_chunks_created = Len(result.value.document_ids)
        /\ result.value.total_chunks_created = Len(collection) - Len(hist.base)
        /\ Len(Added) = ChunksBefore(hist.docs, Len(hist.docs) + 1)

C9_Witness ==
    /\ IngestSucceeded
    /\ result.op = "add_documents_batch"
    /\ Len(hist.docs) = 2
    /\ Len(DocChunks(hist.docs[1])) = 2
    /\ Len(DocChunks(hist.docs[2])) = 1
    /\ result.value.total_chunks_created = 3

(* --------------------------- claims on query --------------------------- *)

\* C10: query never raises past the service: whatever the embedder, the
\* collection and the agent do, the call returns a QueryResponse whose
\* query field is the query of the request.
C10_QueryNeverRaises ==
    (result.op = "query") =>
        /\ result.raised = FALSE
        /\ DOMAIN result.value = {"answer", "sources", "query"}
        /\ result.value.query = hist.request.query

C10_Witness ==
    /\ result.op = "query"
    /\ result.raised = FALSE
    /\ result.value.answer.kind = "error"
    /\ result.value.query = <<" ">>

QueryAnswered == result.op = "query" /\ result.raised = FALSE

\* C11: whenever a step of the query path raises (embedding the query, the
\* nearest-neighbour search, or answer generation) the response's answer
\* explains the failure, carrying the error message, and its sources are
\* empty.
C11_FailureExplained ==
    (QueryAnswered /\ hist.failed # "none") =>
        /\ result.value.answer.kind = "error"
        /\ result.value.sources = <<>>

\* C12: with the agent unavailable, a query with top_k > 0 against an empty
\* collection returns no sources and the "no relevant documents" answer,
\* which repeats the query text literally.
C12_EmptyCollection ==
    (QueryAnswered /\ ~llm_available /\ collection = <<>> /\ hist.request.top_k > 0) =>
        /\ result.value.sources = <<>>
        /\ result.value.answer.kind = "no_documents"
        /\ result.value.answer.query = hist.request.query

C12_Witness ==
    /\ QueryAnswered
    /\ ~llm_available
    /\ collection = <<>>
    /\ hist.request = [query |-> <<"a">>, top_k |-> 3]
    /\ hist.failed = "none"
    /\ result.value.answer = [kind |-> "no_documents", query |-> <<"a">>]

\* C13: with the agent unavailable and at least one document retrieved, the
\* fallback answer is made of the first (best-scored) source alone: it
\* gives that source's score and exactly the first 500 characters of its
\* text, followed by an ellipsis iff the text is longer than 500.
C13_FallbackExtract ==
    (QueryAnswered /\ ~llm_available /\ result.value.sources # <<>>) =>
        LET best == result.value.sources[1]
            answer == result.value.answer
        IN /\ \A j \in 1..Len(result.value.sources) :
                 result.value.sources[j].score <= best.score
           /\ DOMAIN answer = {"kind", "score", "quoted", "ellipsis"}
           /\ answer.kind = "extract"
           /\ answer.score = best.score
           /\ answer.quoted = SubSeq(best.content, 1, Min(500, Len(best.content)))
           /\ answer.ellipsis <=> Len(best.content) > 500

C13_Witness ==
    /\ QueryAnswered
    /\ ~llm_available
    /\ Len(result.value.sources) = 2
    /\ Len(result.value.sources[1].content) = 501
    /\ Len(result.value.sources[2].content) < 500
    /\ Len(result.value.answer.quoted) = 500
    /\ result.value.answer.ellipsis
    /\ result.value.answer.score = 92

(* ---------------------- claims on the HTTP surface --------------------- *)

Cleared == result = [op |-> "DELETE /documents", status_code |-> 200]

\* C14: a successful clear leaves no record of those stored before it, and
\* a stats call made right after it (its count succeeding) reports
\* total_documents = 0.
C14_ClearThenStats ==
    /\ Cleared => (collection = <<>> /\ exists)
    /\ (result.op = "GET /stats" /\ hist.after = "cleared" /\ hist.count = "ok") =>
          /\ result.value.knowledge_base.total_documents = 0
          /\ collection = <<>>

C14_Witness ==
    /\ result.op = "GET /stats"
    /\ hist.after = "cleared"
    /\ nextId > 1
    /\ result.value.knowledge_base.total_documents = 0

\* The endpoints that look at their request before they use the service.
ValidatedOps == {"POST /query", "POST /documents/batch", "POST /documents/upload"}

Rejected == result.op \in ValidatedOps /\ hist.rejected

\* C15: a request that fails validation (a blank query, an empty batch, an
\* upload that is not text) is answered with a 400-class status.
C15_ValidationStatus == Rejected => result.status_code \in 400..499

\* C16: a request that fails validation is rejected before any collaborator
\* is reached: neither the service nor the embedder, the collection or the
\* agent is called, no ingest call begins and the stored records are those
\* the request found.
C16_RejectedFirst ==
    Rejected =>
        /\ hist.invoked = {}
        /\ call = Idle
        /\ collection = hist.base

C16_Witness ==
    /\ Rejected
    /\ result.op = "POST /documents/upload"
    /\ Len(collection) = 2

\* C17: /health answers 503 whenever the count of the collection fails, and
\* 200 only when the count succeeded.
C17_HealthFollowsStats ==
    (result.op = "GET /health") =>
        /\ hist.count = "fails" => result.status_code = 503
        /\ result.status_code = 200 => hist.count = "ok"

\* C18: when the knowledge base (store or embedder) cannot be built, startup
\* is aborted and no request is ever served; when only the agent cannot be
\* built, startup completes with llm_available false and queries get the
\* fallback answer.
C18_Startup ==
    /\ ~Serving =>
          /\ call = Idle /\ result = NoResult /\ hist = NoHist
          /\ nextId = 1 /\ ~clearing /\ exists
    /\ lifespan.outcome \in {"store_fails", "embedder_fails"} =>
          lifespan.phase = "aborted"
    /\ lifespan.outcome = "agent_fails" => (Serving /\ ~llm_available)
    /\ (lifespan.outcome = "agent_fails" /\ result.op = "POST /query" /\ ~hist.rejected) =>
          result.value.answer.kind \in {"no_documents", "extract"}

C18_Witness ==
    /\ lifespan.outcome = "agent_fails"
    /\ result.op = "POST /query"
    /\ ~hist.rejected
    /\ hist.failed = "none"
    /\ result.value.answer.kind = "extract"

\* A call found the collection missing: a write or a search failed on a
\* collection that was deleted.
MissingObserved ==
    /\ ~exists
    /\ \/ IngestFailed /\ result.value.message[2] = "add_fails"
       \/ result.op = "POST /query" /\ ~hist.rejected /\ hist.failed = "query_fails"

IsPrefix(s, t) == Len(s) <= Len(t) /\ SubSeq(t, 1, Len(s)) = s

ReadOps == {"POST /query", "GET /stats", "GET /health"}

\* C20: a step of any operation but clear keeps every stored record, with
\* its id, text and metadata, where it was (new records come after them),
\* and a query, stats or health request leaves the collection as it was.
C20_RecordsPersist ==
    [][/\ (hist'.op # "clear") => IsPrefix(collection, collection')
       /\ (result'.op \in ReadOps) => collection' = collection]_vars

C20_Witness ==
    /\ result.op = "POST /query"
    /\ ~hist.rejected
    /\ Len(collection) = 2
    /\ collection[1] = StoredBefore
    /\ collection[2].id = 1

(* --------------------- claims on windows and metadata ------------------ *)

\* C21: a window whose end reaches or passes len(text) is the final one:
\* once its chunk is appended the loop stops, so no window follows it and
\* no trailing chunk lying wholly inside it is produced.
C21_FinalWindowStops ==
    (ValidConfig /\ LongText /\ InChunker) =>
        \A k \in 1..Len(windows) :
            windows[k].final => (k = Len(windows) /\ pc = "done")

\* The highest 0-based index of a '.' or a newline in a window, -1 when it
\* holds neither.
LastBreak(win) ==
    LET hits == {k \in 1..Len(win) : win[k] \in {".", "\n"}}
    IN IF hits = {} THEN -1
       ELSE (CHOOSE k \in hits : \A h \in hits : h <= k) - 1

\* C22: a window that is not final (start + chunk_size < len(text)) is
\* shrunk iff the larger of its last '.' index and its last newline index
\* (-1 for none) is strictly greater than chunk_size // 2; a shrunk window
\* ends right after that character (end = start + break_point + 1), any
\* other keeps the full chunk_size window, and a final window is never
\* shrunk.
C22_ShrinkRule ==
    (LongText /\ InChunker) =>
        \A k \in 1..Len(windows) :
            LET w == windows[k]
                full == w.start + chunk_size
                win == PySlice(text, w.start, full)
                bp == LastBreak(win)
                nonfinal == full < Len(text)
            IN /\ w.shrunk <=> (nonfinal /\ bp > chunk_size \div 2)
               /\ w.shrunk => (w.end = w.start + bp + 1 /\ w.raw = SubSeq(win, 1, bp + 1))
               /\ ~w.shrunk => (w.end = full /\ w.raw = win)
               /\ ~nonfinal => (~w.shrunk /\ w.final)

C22_Witness ==
    /\ LongText /\ pc = "done"
    /\ \E k \in 1..Len(windows) :
          /\ windows[k].shrunk
          /\ windows[k].end < windows[k].start + chunk_size
    /\ \E k \in 1..Len(windows) :
          /\ windows[k].final
          /\ windows[k].bp > chunk_size \div 2
          /\ windows[k].end = windows[k].start + chunk_size

\* C23: the metadata stored with chunk k of a document is the caller's
\* metadata (None counting as empty) extended with chunk_index,
\* total_chunks and original_doc_length; these three hold the values
\* add_text_document computes even when the caller gave keys of those
\* names, and every other key of the caller is stored unchanged.
C23_MetadataMerge ==
    (Ingesting \/ IngestSucceeded \/ IngestFailed) =>
        \A d \in 1..Len(hist.docs) :
            LET doc == hist.docs[d]
                given == IF doc.metadata.none THEN EmptyDict ELSE doc.metadata.dict
                own == {"chunk_index", "total_chunks", "original_doc_length"}
            IN \A k \in 0..(Len(DocChunks(doc)) - 1) :
                  LET j == ChunksBefore(hist.docs, d) + k + 1
                  IN j <= Len(Added) =>
                        /\ DOMAIN Added[j].metadata = (DOMAIN given) \cup own
                        /\ Added[j].metadata.chunk_index = k
                        /\ Added[j].metadata.total_chunks = Len(DocChunks(doc))
                        /\ Added[j].metadata.original_doc_length = Len(doc.content)
                        /\ \A key \in (DOMAIN given) \ own :
                              Added[j].metadata[key] = given[key]

C23_Witness ==
    /\ IngestSucceeded
    /\ Len(hist.docs) = 1
    /\ ~hist.docs[1].metadata.none
    /\ DOMAIN hist.docs[1].metadata.dict =
          {"source", "chunk_index", "total_chunks", "original_doc_length"}
    /\ hist.docs[1].metadata.dict.chunk_index = 9
    /\ Len(Added) = 2
    /\ Added[2].metadata =
          [source |-> 7, chunk_index |-> 1, total_chunks |-> 2,
           original_doc_length |-> 2]

====
